---- MODULE Spec2Model ----
(***************************************************************************)
(* Model of the two firewall adapters of the automated-response tool:      *)
(*   third_party_clients/pan/pan.py       (Firewall-A, tag registration)   *)
(*   third_party_clients/sophos/sophos.py (Firewall-B, IP-list mutation)   *)
(*   common.py                            (credential resolver)            *)
(* One process runs one adapter.  The firewalls, the credential store and  *)
(* the operator are the environment: their answers are the inputs of the   *)
(* actions.  Strings that the code formats and parses (the comma separated *)
(* address field) are sequences of tokens, one token per address and one   *)
(* per separator, so that join and split are computed, not assumed.        *)
(***************************************************************************)
EXTENDS Integers, Sequences, FiniteSets, TLC

\* ------------------------------------------------------------------ bounds
MaxIps == 2            \* length of an IP list handed to a Firewall-A verb
MaxListLen == 2        \* length of the Firewall-B address list at start

\* ------------------------------------------------------------ value domains
None == "<None>"
ValidIPs == {"10.0.0.1", "10.0.0.2", "fe80::1"}
InvalidIPs == {"10.0.0.256"}
HostIPs == ValidIPs \cup InvalidIPs
PanIPs == {"10.0.0.1", "10.0.0.2"}
\* how many IPHost resources the Firewall-B filter by name finds: none, one, several
MatchCounts == {0, 1, 2}
HttpStatuses == {200, 201, 500}
EmbeddedCodes == {"200", "500"}
LoginStatuses == {"Authentication Successful", "Authentication Failure"}
Comma == ","

\* sequences over S of length lo .. hi
SeqsOf(S, lo, hi) == UNION {[1..n -> S] : n \in lo..hi}
Elems(s) == {s[i] : i \in 1..Len(s)}
IsInjective(s) == \A i, j \in 1..Len(s) : s[i] = s[j] => i = j

RECURSIVE Concat(_)
Concat(ss) == IF Len(ss) = 0 THEN <<>> ELSE Head(ss) \o Concat(Tail(ss))

\* -------------------------------------------------------------- config
\* pan_config / sophos_config
\* pan_config.URLS: two endpoints; a deployment configures a prefix of them
CONFIG_URLS == <<"https://fw1", "https://fw2">>
INTERNAL_BLOCK_TAG == "VectraBlockInternal"
EXTERNAL_BLOCK_TAG == "VectraBlockExternal"
BLOCK_LIST_NAME == "VectraBlockList"

VARIABLES
    client,      \* the adapter this process runs: "pan" or "sophos"
    auth,        \* "Unauthenticated", "Authenticating", "Ready"
    alive,       \* FALSE once the process has terminated or construction raised
    modify,      \* kwargs["modify"] = <<store_keys, update_keys>>
    keyring,     \* the OS credential store: <<system, key>> -> secret or None
    prompts,     \* interactive prompts issued so far
    logins,      \* login calls issued so far (keygen POSTs / login checks)
    login_xml,   \* Firewall-B: the login fragment <<username, password>>
    URLS,        \* Firewall-A: the configured endpoint URLs
    firewalls,   \* Firewall-A: self.firewalls, [url, api_key] per endpoint
    iphosts,     \* Firewall-B server: address fields of the IPHost resources
                 \* whose Name is BLOCK_LIST_NAME, in the order the filter returns them
    registered,  \* Firewall-A server: url -> set of <<ip, tag>> registered
    last,        \* the last verb call: verb, argument, outcome, requests issued
    before       \* the Firewall-B host verb call made right before the last call

vars == <<client, auth, alive, modify, keyring, prompts, logins, login_xml,
          URLS, firewalls, iphosts, registered, last, before>>

\* ============================================================ common.py
\* _get_password(system, key, modify=...): the stored secret unless absent or
\* update_keys; otherwise the operator's answer (None when declined); stored
\* again when store_keys, the answer is not None and the store accepts it.
\* answer and setOk are what the operator and the store do.
_get_password(system, key, mod, ring, answer, setOk) ==
    LET store_keys == mod[1]
        update_keys == mod[2]
        stored == ring[<<system, key>>]
        asked == update_keys \/ stored = None
        password == IF asked THEN answer ELSE stored
        ring2 == IF store_keys /\ password # None /\ setOk
                 THEN [ring EXCEPT ![<<system, key>>] = password]
                 ELSE ring
    IN [password |-> password, keyring |-> ring2,
        prompts |-> IF asked THEN 1 ELSE 0]

\* ================================================= sophos.py (Firewall-B)
\* ipaddress.ip_address(ip) accepts exactly the well-formed addresses
_validate_ip_address(ip) == ip \in ValidIPs

\* ",".join(ips): an empty element contributes no token
RECURSIVE Join(_)
Join(ips) ==
    IF Len(ips) = 0 THEN <<>>
    ELSE LET tok == IF ips[1] = "" THEN <<>> ELSE <<ips[1]>>
         IN IF Len(ips) = 1 THEN tok ELSE tok \o <<Comma>> \o Join(Tail(ips))

\* text.split(sep=","): one element per separator plus one; the text between
\* two separators may be empty
RECURSIVE SplitFrom(_, _)
SplitFrom(text, cur) ==
    IF Len(text) = 0 THEN <<cur>>
    ELSE IF Head(text) = Comma THEN <<cur>> \o SplitFrom(Tail(text), "")
    ELSE SplitFrom(Tail(text), Head(text))
Split(text) == SplitFrom(text, "")

\* mutant of Remove: drops the first element, whatever it is (pop(0))
Remove_pop0(s, x) == Tail(s)

\* list.remove(x): drops the first occurrence
RECURSIVE Remove(_, _)
Remove(s, x) ==
    IF Len(s) = 0 THEN <<>>
    ELSE IF Head(s) = x THEN Tail(s)
    ELSE <<Head(s)>> \o Remove(Tail(s), x)

\* _make_api_call: one GET carrying the login fragment and the action;
\* raise_for_status raises on an HTTP error status
_make_api_call(login, request_xml, httpOk) ==
    [outcome |-> IF httpOk THEN "return" ELSE "raise",
     req |-> [method |-> "GET", login |-> login, xml |-> request_xml]]

GetRequest == [op |-> "Get", name |-> BLOCK_LIST_NAME]
SetRequest(csv) == [op |-> "Set", name |-> BLOCK_LIST_NAME, csv |-> csv]
IsSet(req) == req.xml.op = "Set"

\* _login_check: exit() unless the status is exactly "Authentication Successful"
_login_check(login, httpOk, status) ==
    LET r == _make_api_call(login, [op |-> "Login"], httpOk)
    IN [outcome |-> IF r.outcome = "raise" THEN "raise"
                    ELSE IF status = "Authentication Successful" THEN "return"
                    ELSE "exit",
        reqs |-> <<r.req>>]

\* mutant of _get_blocked_ips: goes on with an empty list when the filter finds
\* no resource
_get_blocked_ips_lenient(login, hosts, httpOk) ==
    LET r == _make_api_call(login, GetRequest, httpOk)
    IN IF r.outcome = "raise"
       THEN [outcome |-> "raise", value |-> <<>>, reqs |-> <<r.req>>]
       ELSE IF Len(hosts) = 0
       THEN [outcome |-> "return", value |-> <<>>, reqs |-> <<r.req>>]
       ELSE IF hosts[1] = <<>>
       THEN [outcome |-> "raise", value |-> <<>>, reqs |-> <<r.req>>]
       ELSE [outcome |-> "return", value |-> Split(hosts[1]), reqs |-> <<r.req>>]

\* _get_blocked_ips: hosts is what the filter by name returns
_get_blocked_ips(login, hosts, httpOk) ==
    LET r == _make_api_call(login, GetRequest, httpOk)
    IN IF r.outcome = "raise"
       THEN [outcome |-> "raise", value |-> <<>>, reqs |-> <<r.req>>]
       ELSE IF Len(hosts) = 0
       THEN [outcome |-> "exit", value |-> <<>>, reqs |-> <<r.req>>]
       ELSE IF hosts[1] = <<>>
       \* an element without text has text None: None.split raises
       THEN [outcome |-> "raise", value |-> <<>>, reqs |-> <<r.req>>]
       ELSE [outcome |-> "return", value |-> Split(hosts[1]), reqs |-> <<r.req>>]

\* _update_blocked_ips: True iff the embedded status code is "200"
_update_blocked_ips(login, ips_to_block, httpOk, code) ==
    LET r == _make_api_call(login, SetRequest(Join(ips_to_block)), httpOk)
    IN IF r.outcome = "raise"
       THEN [outcome |-> "raise", value |-> FALSE, reqs |-> <<r.req>>]
       ELSE [outcome |-> "return", value |-> (code = "200"), reqs |-> <<r.req>>]

\* the result of a verb call
Result(outcome, ret, reqs, fetched) ==
    [outcome |-> outcome, ret |-> ret, reqs |-> reqs, fetched |-> fetched,
     calls |-> <<>>]

\* what the caller's list looks like when the verb pushes it
PushResult(ip, g, u) ==
    Result(u.outcome,
           IF u.outcome = "return" /\ u.value THEN <<ip>> ELSE <<>>,
           g.reqs \o u.reqs, g.value)

\* mutant of _block_ip: appends and pushes without looking for the address
_block_ip_unchecked(login, ip, hosts, env) ==
    IF ~_validate_ip_address(ip) THEN Result("return", <<>>, <<>>, <<>>)
    ELSE LET g == _get_blocked_ips(login, hosts, env.getOk)
         IN IF g.outcome # "return" THEN Result(g.outcome, <<>>, g.reqs, <<>>)
            ELSE PushResult(ip, g,
                     _update_blocked_ips(login, Append(g.value, ip), env.setOk, env.code))

\* mutant of _block_ip: pushes the new address alone, not the list fetched
_block_ip_only_new(login, ip, hosts, env) ==
    IF ~_validate_ip_address(ip) THEN Result("return", <<>>, <<>>, <<>>)
    ELSE LET g == _get_blocked_ips(login, hosts, env.getOk)
         IN IF g.outcome # "return" THEN Result(g.outcome, <<>>, g.reqs, <<>>)
            ELSE IF ip \notin Elems(g.value)
            THEN PushResult(ip, g,
                     _update_blocked_ips(login, <<ip>>, env.setOk, env.code))
            ELSE Result("return", <<>>, g.reqs, g.value)

_block_ip(login, ip, hosts, env) ==
    IF ~_validate_ip_address(ip) THEN Result("return", <<>>, <<>>, <<>>)
    ELSE LET g == _get_blocked_ips(login, hosts, env.getOk)
         IN IF g.outcome # "return" THEN Result(g.outcome, <<>>, g.reqs, <<>>)
            ELSE IF ip \notin Elems(g.value)
            THEN PushResult(ip, g,
                     _update_blocked_ips(login, Append(g.value, ip), env.setOk, env.code))
            ELSE Result("return", <<>>, g.reqs, g.value)

\* mutant of _unblock_ip: pushes without looking for the address
_unblock_ip_unchecked(login, ip, hosts, env) ==
    IF ~_validate_ip_address(ip) THEN Result("return", <<>>, <<>>, <<>>)
    ELSE LET g == _get_blocked_ips(login, hosts, env.getOk)
         IN IF g.outcome # "return" THEN Result(g.outcome, <<>>, g.reqs, <<>>)
            ELSE PushResult(ip, g,
                     _update_blocked_ips(login, Remove(g.value, ip), env.setOk, env.code))

_unblock_ip(login, ip, hosts, env) ==
    IF ~_validate_ip_address(ip) THEN Result("return", <<>>, <<>>, <<>>)
    ELSE LET g == _get_blocked_ips(login, hosts, env.getOk)
         IN IF g.outcome # "return" THEN Result(g.outcome, <<>>, g.reqs, <<>>)
            ELSE IF ip \in Elems(g.value)
            THEN PushResult(ip, g,
                     _update_blocked_ips(login, Remove(g.value, ip), env.setOk, env.code))
            ELSE Result("return", <<>>, g.reqs, g.value)

sophos_block_host(login, ip, hosts, env) == _block_ip(login, ip, hosts, env)
sophos_unblock_host(login, ip, hosts, env) == _unblock_ip(login, ip, hosts, env)

\* groom_host, block_account, unblock_account, block_detection,
\* unblock_detection, block_static_dst_ips, unblock_static_dst_ips:
\* a warning (none for unblock_detection) and the empty list
SophosUnsupportedVerbs ==
    {"groom_host", "block_account", "unblock_account", "block_detection",
     "unblock_detection", "block_static_dst_ips", "unblock_static_dst_ips"}
\* mutant of sophos_unsupported: queries the firewall before giving up
sophos_unsupported_fetches(verb) ==
    Result("return", <<>>, <<_make_api_call(<<None, None>>, GetRequest, TRUE).req>>, <<>>)
sophos_unsupported(verb) == Result("return", <<>>, <<>>, <<>>)

\* The firewall applies an update it answered with HTTP success and code "200"
\* to the resource of that name; any other request leaves it alone.
SophosServer(hosts, res, env) ==
    IF \E i \in 1..Len(res.reqs) : IsSet(res.reqs[i])
       /\ env.setOk /\ env.code = "200" /\ Len(hosts) > 0
    THEN [hosts EXCEPT ![1] = res.reqs[Len(res.reqs)].xml.csv]
    ELSE hosts


\* ===================================================== pan.py (Firewall-A)
\* the attributes a Client object has: the methods pan.py defines (the parent
\* interface declares the verbs only)
ClientAttrs ==
    {"_get_keyring_password", "block_host", "block_account", "unblock_host",
     "unblock_account", "groom_host", "block_detection", "unblock_detection",
     "block_static_dst_ips", "unblock_static_dst_ips", "_get_api_token",
     "_register_address", "_unregister_address"}
HasAttr(name) == name \in ClientAttrs

\* a non-empty tuple is true
Truthy(mod) == Len(mod) > 0

\* _get_keyring_password: None and '' both mean unset
_get_keyring_password(ring, system, username) ==
    IF ring[<<system, username>>] = None \/ ring[<<system, username>>] = ""
    THEN None ELSE ring[<<system, username>>]

\* mutant of _get_api_token: logs in a second time to read the key
_get_api_token_twice(pan_url, mod, ring, ans, key) ==
    LET u == _get_password(pan_url, "username", mod, ring, ans.user, ans.setUser)
        p == _get_password(pan_url, "password", mod, u.keyring, ans.pass, ans.setPass)
        req == [method |-> "POST", url |-> pan_url, type |-> "keygen",
                user |-> u.password, password |-> p.password]
    IN IF key = None
       THEN [outcome |-> "raise", api_key |-> None, keyring |-> p.keyring,
             prompts |-> u.prompts + p.prompts, reqs |-> <<req>>]
       ELSE [outcome |-> "return", api_key |-> key,
             keyring |-> [p.keyring EXCEPT ![<<pan_url, "API_Key">>] = key],
             prompts |-> u.prompts + p.prompts, reqs |-> <<req, req>>]

\* _get_api_token: resolve user and password, POST them to ?type=keygen, read
\* response/result/key (a KeyError when the login failed), store the key.
\* ans = the operator's answers and the store's acceptance, key = the key in
\* the response, None when the response holds none.
_get_api_token(pan_url, mod, ring, ans, key) ==
    LET api_token == _get_keyring_password(ring, pan_url, "API_Key")
        u == _get_password(pan_url, "username", mod, ring, ans.user, ans.setUser)
        p == _get_password(pan_url, "password", mod, u.keyring, ans.pass, ans.setPass)
        req == [method |-> "POST", url |-> pan_url, type |-> "keygen",
                user |-> u.password, password |-> p.password]
    IN IF ~(api_token = None \/ Truthy(mod))
       \* payload is unbound: the POST is never made
       THEN [outcome |-> "raise", api_key |-> None, keyring |-> ring,
             prompts |-> 0, reqs |-> <<>>]
       ELSE IF key = None
       THEN [outcome |-> "raise", api_key |-> None, keyring |-> p.keyring,
             prompts |-> u.prompts + p.prompts, reqs |-> <<req>>]
       ELSE [outcome |-> "return", api_key |-> key,
             keyring |-> [p.keyring EXCEPT ![<<pan_url, "API_Key">>] = key],
             prompts |-> u.prompts + p.prompts, reqs |-> <<req>>]

\* the <uid-message> command: one <entry ip=..><tag><member>..</member></tag></entry>
\* per address, in the order of the list
Command(op, ip_addresses, tag) ==
    [op |-> op,
     entries |-> [i \in 1..Len(ip_addresses) |-> [ip |-> ip_addresses[i], tag |-> tag]]]

UserIdPost(firewall, command, status) ==
    [method |-> "POST", url |-> firewall.url, type |-> "user-id",
     key |-> firewall.api_key, cmd |-> command, status |-> status]

\* _register_address / _unregister_address: one POST of the whole list; the
\* list back on status 200 or 201, the empty list otherwise
_register_address(firewall, ip_addresses, tag, status) ==
    [ret |-> IF status \in {200, 201} THEN ip_addresses ELSE <<>>,
     reqs |-> <<UserIdPost(firewall, Command("register", ip_addresses, tag), status)>>]

\* mutant of _unregister_address: one POST per address
_unregister_address_each(firewall, ip_addresses, tag, status) ==
    [ret |-> IF status \in {200, 201} THEN ip_addresses ELSE <<>>,
     reqs |-> [i \in 1..Len(ip_addresses) |->
                 UserIdPost(firewall,
                            Command("unregister", <<ip_addresses[i]>>, tag), status)]]

_unregister_address(firewall, ip_addresses, tag, status) ==
    [ret |-> IF status \in {200, 201} THEN ip_addresses ELSE <<>>,
     reqs |-> <<UserIdPost(firewall, Command("unregister", ip_addresses, tag), status)>>]

\* for firewall in self.firewalls: <call>  -- the calls made, in order
RegisterOnAll(fws, ip_addresses, tag, statuses) ==
    [i \in 1..Len(fws) |-> _register_address(fws[i], ip_addresses, tag, statuses[i])]
UnregisterOnAll(fws, ip_addresses, tag, statuses) ==
    [i \in 1..Len(fws) |-> _unregister_address(fws[i], ip_addresses, tag, statuses[i])]

\* a verb that returned after these calls: their requests, in order
PanResult(ret, calls) ==
    [outcome |-> "return", ret |-> ret,
     reqs |-> Concat([i \in 1..Len(calls) |-> calls[i].reqs]),
     fetched |-> <<>>, calls |-> calls]

\* block_host: register host.ip under the internal tag everywhere, return [ip]
pan_block_host(fws, ip_address, statuses) ==
    PanResult(<<ip_address>>,
              RegisterOnAll(fws, <<ip_address>>, INTERNAL_BLOCK_TAG, statuses))

\* unblock_host: host.blocked_elements.get(self.name, [])
pan_unblock_host(fws, ip_addresses, statuses) ==
    PanResult(ip_addresses,
              UnregisterOnAll(fws, ip_addresses, INTERNAL_BLOCK_TAG, statuses))

\* block_account, unblock_account, groom_host: a warning and the empty list
PanUnsupportedVerbs == {"block_account", "unblock_account", "groom_host"}
pan_unsupported(verb) == Result("return", <<>>, <<>>, <<>>)

\* block_detection / block_static_dst_ips call self.register_address and
\* unblock_detection / unblock_static_dst_ips self.unregister_address in the
\* loop body: the attribute is looked up in the first iteration
pan_register_external(fws, ip_addresses, statuses) ==
    IF Len(fws) = 0 THEN Result("return", ip_addresses, <<>>, <<>>)
    ELSE IF ~HasAttr("register_address") THEN Result("raise", <<>>, <<>>, <<>>)
    ELSE PanResult(ip_addresses,
                   RegisterOnAll(fws, ip_addresses, EXTERNAL_BLOCK_TAG, statuses))

pan_unregister_external(fws, ip_addresses, statuses) ==
    IF Len(fws) = 0 THEN Result("return", ip_addresses, <<>>, <<>>)
    ELSE IF ~HasAttr("unregister_address") THEN Result("raise", <<>>, <<>>, <<>>)
    ELSE PanResult(ip_addresses,
                   UnregisterOnAll(fws, ip_addresses, EXTERNAL_BLOCK_TAG, statuses))

pan_block_detection(fws, dst_ips, statuses) ==
    pan_register_external(fws, dst_ips, statuses)
pan_unblock_detection(fws, blocked_elements, statuses) ==
    pan_unregister_external(fws, blocked_elements, statuses)
pan_block_static_dst_ips(fws, dst_ips, statuses) ==
    pan_register_external(fws, dst_ips, statuses)
pan_unblock_static_dst_ips(fws, dst_ips, statuses) ==
    pan_unregister_external(fws, dst_ips, statuses)

\* The firewall applies a user-id command it answered with 200 or 201.
ApplyCommand(tags, req) ==
    LET pairs == {<<req.cmd.entries[i].ip, req.cmd.entries[i].tag>> :
                     i \in 1..Len(req.cmd.entries)}
    IN IF req.status \notin {200, 201} THEN tags
       ELSE IF req.cmd.op = "register" THEN tags \cup pairs
       ELSE tags \ pairs

RECURSIVE PanServer(_, _)
PanServer(reg, reqs) ==
    IF Len(reqs) = 0 THEN reg
    ELSE PanServer([reg EXCEPT ![Head(reqs).url] = ApplyCommand(@, Head(reqs))],
                   Tail(reqs))


\* ================================================================ state
NoEnv == [getOk |-> FALSE, setOk |-> FALSE, code |-> "none"]
NoCall == [verb |-> "none", arg |-> <<>>, outcome |-> "none", ret |-> <<>>,
           reqs |-> <<>>, fetched |-> <<>>, calls |-> <<>>, pre |-> <<>>,
           env |-> NoEnv, status |-> "none"]

\* the record of a call: what was called with what, how it ended (return,
\* raise, exit), what it returned, the requests it issued, the server state
\* it found and the answers the server gave (env; status for the login check)
Call(verb, arg, res, pre, env) ==
    [verb |-> verb, arg |-> arg, outcome |-> res.outcome, ret |-> res.ret,
     reqs |-> res.reqs, fetched |-> res.fetched, calls |-> res.calls, pre |-> pre,
     env |-> env, status |-> "none"]

HostVerbs == {"block_host", "unblock_host"}

SophosKeys == {<<"Sophos", "Username">>, <<"Sophos", "Password">>}
PanKeys(urls) == {<<urls[i], k>> : i \in 1..Len(urls), k \in {"username", "password", "API_Key"}}

\* address lists without repetition
Lists(ips, lo, hi) == {l \in SeqsOf(ips, lo, hi) : IsInjective(l)}

\* the address field of a second resource of the same name
OtherList == <<"192.0.2.1">>

InitWith(Modifies, Stored, StartLists) ==
    /\ client \in {"pan", "sophos"}
    /\ auth = "Unauthenticated"
    /\ alive = TRUE
    /\ modify \in Modifies
    /\ prompts = 0
    /\ logins = 0
    /\ login_xml = <<None, None>>
    /\ firewalls = <<>>
    /\ last = NoCall
    /\ before = NoCall
    /\ IF client = "pan"
       THEN /\ \E m \in 0..Len(CONFIG_URLS) : URLS = SubSeq(CONFIG_URLS, 1, m)
            /\ iphosts = <<>>
       ELSE /\ URLS = <<>>
            /\ \E n \in MatchCounts, l \in StartLists :
                  iphosts = [i \in 1..n |-> IF i = 1 THEN Join(l) ELSE Join(OtherList)]
    /\ registered = [u \in Elems(URLS) |-> {}]
    /\ \E v \in Stored :
          keyring = [k \in IF client = "pan" THEN PanKeys(URLS) ELSE SophosKeys |-> v]

\* ------------------------------------------------------- construction
\* sophos.py __init__, up to the login check: the login fragment is built from
\* the resolved user name and password
SophosInit(Answers, SetOks) ==
    /\ client = "sophos" /\ alive /\ auth = "Unauthenticated"
    /\ \E a1 \in Answers, a2 \in Answers, s1 \in SetOks, s2 \in SetOks :
          LET u == _get_password("Sophos", "Username", modify, keyring, a1, s1)
              p == _get_password("Sophos", "Password", modify, u.keyring, a2, s2)
          IN /\ login_xml' = <<u.password, p.password>>
             /\ keyring' = p.keyring
             /\ prompts' = prompts + u.prompts + p.prompts
    /\ auth' = "Authenticating"
    /\ UNCHANGED <<client, alive, modify, logins, URLS, firewalls, iphosts,
                   registered, last, before>>

\* sophos.py __init__: self._login_check()
SophosLoginCheck ==
    /\ client = "sophos" /\ alive /\ auth = "Authenticating"
    /\ \E httpOk \in BOOLEAN, status \in LoginStatuses :
          LET r == _login_check(login_xml, httpOk, status)
          IN /\ last' = [Call("__init__", <<>>,
                              Result(r.outcome, <<>>, r.reqs, <<>>), iphosts, NoEnv)
                         EXCEPT !.status = IF httpOk THEN status ELSE "none"]
             /\ logins' = logins + Len(r.reqs)
             /\ alive' = (r.outcome = "return")
             /\ auth' = IF r.outcome = "return" THEN "Ready" ELSE auth
    /\ UNCHANGED <<client, modify, keyring, prompts, login_xml, URLS, firewalls,
                   iphosts, registered, before>>

\* pan.py __init__: self.firewalls = []
PanInit ==
    /\ client = "pan" /\ alive /\ auth = "Unauthenticated"
    /\ auth' = "Authenticating"
    /\ firewalls' = <<>>
    /\ UNCHANGED <<client, alive, modify, keyring, prompts, logins, login_xml, URLS,
                   iphosts, registered, last, before>>

\* pan.py __init__: one iteration of `for url in URLS`
PanGetApiToken(Answers, SetOks) ==
    /\ client = "pan" /\ alive /\ auth = "Authenticating"
    /\ Len(firewalls) < Len(URLS)
    /\ \E a1 \in Answers, a2 \in Answers, s1 \in SetOks, s2 \in SetOks,
          key \in {None, "LUFRPT"} :
          LET url == URLS[Len(firewalls) + 1]
              r == _get_api_token(url, modify, keyring,
                       [user |-> a1, pass |-> a2, setUser |-> s1, setPass |-> s2], key)
          IN /\ keyring' = r.keyring
             /\ prompts' = prompts + r.prompts
             /\ logins' = logins + Len(r.reqs)
             /\ alive' = (r.outcome = "return")
             /\ firewalls' = IF r.outcome = "return"
                             THEN Append(firewalls, [url |-> url, api_key |-> r.api_key])
                             ELSE firewalls
             /\ last' = Call("__init__", <<>>,
                             Result(r.outcome, <<>>, r.reqs, <<>>), registered, NoEnv)
    /\ UNCHANGED <<client, auth, modify, login_xml, URLS, iphosts, registered, before>>

\* pan.py __init__: the loop is over, the object exists
PanReady ==
    /\ client = "pan" /\ alive /\ auth = "Authenticating"
    /\ Len(firewalls) = Len(URLS)
    /\ auth' = "Ready"
    /\ UNCHANGED <<client, alive, modify, keyring, prompts, logins, login_xml, URLS,
                   firewalls, iphosts, registered, last, before>>

\* ---------------------------------------------------------- Firewall-B verbs
SophosEnvs == [getOk : BOOLEAN, setOk : BOOLEAN, code : EmbeddedCodes]

SophosServes == client = "sophos" /\ alive /\ auth = "Ready"

\* the answers the server actually gave to the requests of a call
Answered(r, env) ==
    LET set == \E i \in 1..Len(r.reqs) : IsSet(r.reqs[i])
    IN [getOk |-> Len(r.reqs) > 0 /\ env.getOk,
        setOk |-> set /\ env.setOk,
        code |-> IF set /\ env.setOk THEN env.code ELSE "none"]

SophosEffect(verb, arg, r, env) ==
    /\ iphosts' = SophosServer(iphosts, r, env)
    /\ last' = Call(verb, arg, r, iphosts, Answered(r, env))
    /\ before' = IF last.verb \in HostVerbs THEN last ELSE NoCall
    /\ alive' = (r.outcome # "exit")
    /\ UNCHANGED <<client, auth, modify, keyring, prompts, logins, login_xml, URLS,
                   firewalls, registered>>

SophosBlockHost(IPs) ==
    /\ SophosServes
    /\ \E ip \in IPs, env \in SophosEnvs :
          SophosEffect("block_host", <<ip>>,
                       sophos_block_host(login_xml, ip, iphosts, env), env)

SophosUnblockHost(IPs) ==
    /\ SophosServes
    /\ \E ip \in IPs, env \in SophosEnvs :
          SophosEffect("unblock_host", <<ip>>,
                       sophos_unblock_host(login_xml, ip, iphosts, env), env)

SophosUnsupported ==
    /\ SophosServes
    /\ \E verb \in SophosUnsupportedVerbs :
          SophosEffect(verb, <<>>, sophos_unsupported(verb), NoEnv)

\* ---------------------------------------------------------- Firewall-A verbs
PanServes == client = "pan" /\ alive /\ auth = "Ready"

PanEffect(verb, arg, r) ==
    /\ registered' = PanServer(registered, r.reqs)
    /\ last' = Call(verb, arg, r, registered, NoEnv)
    /\ UNCHANGED <<client, auth, alive, modify, keyring, prompts, logins, login_xml,
                   URLS, firewalls, iphosts, before>>

PanStatuses(Statuses) == [1..Len(firewalls) -> Statuses]

PanBlockHost(IPs, Statuses) ==
    /\ PanServes
    /\ \E ip \in IPs, st \in PanStatuses(Statuses) :
          PanEffect("block_host", <<ip>>, pan_block_host(firewalls, ip, st))

PanUnblockHost(IPLists, Statuses) ==
    /\ PanServes
    /\ \E ips \in IPLists, st \in PanStatuses(Statuses) :
          PanEffect("unblock_host", ips, pan_unblock_host(firewalls, ips, st))

PanBlockDetection(IPLists, Statuses) ==
    /\ PanServes
    /\ \E ips \in IPLists, st \in PanStatuses(Statuses) :
          PanEffect("block_detection", ips, pan_block_detection(firewalls, ips, st))

PanUnblockDetection(IPLists, Statuses) ==
    /\ PanServes
    /\ \E ips \in IPLists, st \in PanStatuses(Statuses) :
          PanEffect("unblock_detection", ips, pan_unblock_detection(firewalls, ips, st))

PanBlockStaticDstIps(IPLists, Statuses) ==
    /\ PanServes
    /\ \E ips \in IPLists, st \in PanStatuses(Statuses) :
          PanEffect("block_static_dst_ips", ips,
                    pan_block_static_dst_ips(firewalls, ips, st))

PanUnblockStaticDstIps(IPLists, Statuses) ==
    /\ PanServes
    /\ \E ips \in IPLists, st \in PanStatuses(Statuses) :
          PanEffect("unblock_static_dst_ips", ips,
                    pan_unblock_static_dst_ips(firewalls, ips, st))

PanUnsupported ==
    /\ PanServes
    /\ \E verb \in PanUnsupportedVerbs :
          PanEffect(verb, <<>>, pan_unsupported(verb))

\* ------------------------------------------------------- specifications
\* One step of the program.  Answers / SetOks: what the operator types and
\* whether the credential store accepts a write; SIPs: host.ip values given to
\* Firewall-B; PIPs / PLists: addresses and address lists given to Firewall-A;
\* Statuses: the HTTP statuses a Firewall-A endpoint answers with.
Step(Answers, SetOks, SIPs, PIPs, PLists, Statuses) ==
    \/ SophosInit(Answers, SetOks)
    \/ SophosLoginCheck
    \/ PanInit
    \/ PanGetApiToken(Answers, SetOks)
    \/ PanReady
    \/ SophosBlockHost(SIPs)
    \/ SophosUnblockHost(SIPs)
    \/ SophosUnsupported
    \/ PanBlockHost(PIPs, Statuses)
    \/ PanUnblockHost(PLists, Statuses)
    \/ PanBlockDetection(PLists, Statuses)
    \/ PanUnblockDetection(PLists, Statuses)
    \/ PanBlockStaticDstIps(PLists, Statuses)
    \/ PanUnblockStaticDstIps(PLists, Statuses)
    \/ PanUnsupported

\* Spec: every verb on every input, with the credentials stored.
Init == InitWith({<<TRUE, FALSE>>}, {"secret"}, Lists(ValidIPs, 1, MaxListLen))
Next == Step({"typed"}, {TRUE}, HostIPs, PanIPs, SeqsOf(PanIPs, 0, MaxIps), HttpStatuses)
Spec == Init /\ [][Next]_vars

\* SpecAuth: every way the credentials can be resolved (stored, unset, empty,
\* refreshed, declined, not storable), with the verbs on few inputs.
InitAuth == InitWith(BOOLEAN \X BOOLEAN, {None, "", "secret"}, {<<"10.0.0.2">>})
NextAuth == Step({None, "typed"}, BOOLEAN, {"10.0.0.1", "10.0.0.256"}, {"10.0.0.1"},
                 SeqsOf({"10.0.0.1"}, 0, 1), {200, 500})
SpecAuth == InitAuth /\ [][NextAuth]_vars

\* ================================================================ claims
\* the addresses of an address field, in order (what the firewall holds)
Entries(csv) == SelectSeq(csv, LAMBDA t : t # Comma)
Count(x, l) == Cardinality({i \in 1..Len(l) : l[i] = x})
\* l without its k-th element
Without(l, k) == SubSeq(l, 1, k - 1) \o SubSeq(l, k + 1, Len(l))
HasSet(call) == \E i \in 1..Len(call.reqs) : IsSet(call.reqs[i])
\* the call returned and every update it issued was accepted
Succeeded(call) == call.outcome = "return" /\ (HasSet(call) => call.env.code = "200")
SophosHostCall(call, verb) ==
    /\ client = "sophos" /\ call.verb = verb
    /\ Len(call.arg) = 1 /\ call.arg[1] \in ValidIPs

\* block_host(ip) immediately followed by unblock_host(ip), both returning with
\* every push accepted
RoundTrip ==
    /\ SophosHostCall(before, "block_host") /\ SophosHostCall(last, "unblock_host")
    /\ before.arg = last.arg
    /\ Succeeded(before) /\ Succeeded(last)

\* C1 as stated: Firewall-B block_host(ip) then unblock_host(ip), every push
\* succeeding, leaves the resource's address list equal to its content L
\* before the block, whether or not ip was in L.
C1_RoundTripAnyList == RoundTrip => iphosts = before.pre

\* C1 amended: when ip is not in L, block_host(ip) then unblock_host(ip), every
\* push succeeding, leaves the resource's address list equal to L.
C1_RoundTripAbsent ==
    (RoundTrip /\ last.arg[1] \notin Elems(Entries(before.pre[1])))
        => iphosts = before.pre

C1_Witness ==
    /\ RoundTrip
    /\ last.arg[1] \notin Elems(Entries(before.pre[1]))
    /\ Len(Entries(before.pre[1])) >= 2
    /\ before.ret = last.arg /\ last.ret = last.arg
    /\ HasSet(before) /\ HasSet(last)

\* block_host returned for a valid ip that the fetched list already held
BlockedPresent ==
    /\ SophosHostCall(last, "block_host")
    /\ last.outcome = "return"
    /\ last.arg[1] \in Elems(last.fetched)

\* C2 as stated: Firewall-B block_host of an IP already in the fetched list leaves
\* no duplicate entry of it and still returns [ip].
C2_PresentReturnsIp ==
    BlockedPresent => /\ Count(last.arg[1], Entries(iphosts[1])) = 1
                      /\ last.ret = last.arg

\* C2 amended: Firewall-B block_host of an IP already in the fetched list leaves
\* no duplicate entry of it (no update is issued, the list is unchanged) and
\* returns the empty list.
C2_PresentNoDuplicate ==
    BlockedPresent => /\ Count(last.arg[1], Entries(iphosts[1])) = 1
                      /\ ~HasSet(last)
                      /\ iphosts = last.pre
                      /\ last.ret = <<>>

C2_Witness == BlockedPresent /\ Len(last.fetched) >= 2

\* unblock_host returned for a valid ip that the fetched list did not hold
UnblockedAbsent ==
    /\ SophosHostCall(last, "unblock_host")
    /\ last.outcome = "return"
    /\ last.arg[1] \notin Elems(last.fetched)

\* C3: Firewall-B unblock_host of a valid IP that is not in the fetched list
\* returns the empty list, issues no update and leaves the resource unchanged.
C3_UnblockAbsentNoOp ==
    UnblockedAbsent => /\ last.ret = <<>>
                       /\ ~HasSet(last)
                       /\ iphosts = last.pre

C3_Witness == UnblockedAbsent /\ Len(last.fetched) >= 2 /\ before.verb = "block_host"

UnsupportedCall ==
    \/ client = "sophos" /\ last.verb \in SophosUnsupportedVerbs
    \/ client = "pan" /\ last.verb \in PanUnsupportedVerbs

\* C4: an unsupported verb (seven on Firewall-B, three on Firewall-A) returns the
\* empty list, issues no HTTP call, does not terminate the process and leaves
\* the firewall as it was, whatever happened before.
C4_UnsupportedNoOp ==
    UnsupportedCall => /\ last.outcome = "return"
                       /\ last.ret = <<>>
                       /\ last.reqs = <<>>
                       /\ alive
                       /\ IF client = "sophos" THEN iphosts = last.pre
                                               ELSE registered = last.pre

C4_Witness ==
    /\ UnsupportedCall
    /\ client = "sophos" /\ last.verb = "unblock_detection"
    /\ before.verb = "block_host" /\ before.ret # <<>>

BlockVerbs ==
    {"block_host", "unblock_host", "block_detection", "unblock_detection",
     "block_static_dst_ips", "unblock_static_dst_ips"}
\* the firewall refused a request of the last call
Refused ==
    \/ client = "pan" /\ \E i \in 1..Len(last.reqs) : last.reqs[i].status \notin {200, 201}
    \/ client = "sophos" /\ HasSet(last) /\ last.env.setOk /\ last.env.code # "200"

\* C5: a block or unblock verb of either adapter whose firewall call ended in a
\* failure status (HTTP other than 200/201 on any Firewall-A endpoint, embedded
\* code other than "200" on Firewall-B) returns the empty list.
C5_FailureReturnsEmpty ==
    (last.verb \in BlockVerbs /\ last.outcome = "return" /\ Refused
     /\ ~(client = "sophos" /\ last.verb \notin HostVerbs))
        => last.ret = <<>>

ExternalVerbs ==
    {"block_detection", "unblock_detection", "block_static_dst_ips",
     "unblock_static_dst_ips"}
ExternalOp(verb) ==
    IF verb \in {"block_detection", "block_static_dst_ips"} THEN "register"
    ELSE "unregister"

\* C6: Firewall-A block_detection, unblock_detection, block_static_dst_ips and
\* unblock_static_dst_ips issue exactly one POST per configured endpoint, in
\* order, each with an entry per given IP under the external tag,
\* whatever the status of the POSTs before it.
C6_OnePostPerEndpoint ==
    (client = "pan" /\ last.verb \in ExternalVerbs) =>
        /\ Len(last.reqs) = Len(firewalls)
        /\ \A i \in 1..Len(last.reqs) :
              /\ last.reqs[i].url = firewalls[i].url
              /\ last.reqs[i].cmd = Command(ExternalOp(last.verb), last.arg,
                                            EXTERNAL_BLOCK_TAG)

PanHostCall == client = "pan" /\ last.verb \in HostVerbs

C8_OnlyCallerAddresses ==
    /\ (client = "sophos" /\ last.verb \notin {"none", "__init__"}) =>
          \A i \in 1..Len(last.reqs) :
             IsSet(last.reqs[i]) =>
                LET old == Entries(last.pre[1])
                    new == Entries(last.reqs[i].xml.csv)
                IN /\ last.verb \in HostVerbs
                   /\ last.verb = "block_host" => new = Append(old, last.arg[1])
                   /\ last.verb = "unblock_host" =>
                         \E k \in 1..Len(old) :
                            old[k] = last.arg[1] /\ new = Without(old, k)
    /\ (client = "pan" /\ last.verb \notin {"none", "__init__"}) =>
          \A i \in 1..Len(last.reqs) :
             [k \in 1..Len(last.reqs[i].cmd.entries) |-> last.reqs[i].cmd.entries[k].ip]
                = last.arg

C8_Witness ==
    /\ client = "sophos" /\ last.verb = "unblock_host" /\ HasSet(last)
    /\ Len(Entries(last.pre[1])) = 3
    /\ last.pre[1][3] = last.arg[1]
    /\ last.ret = last.arg

IsLogin(req) ==
    IF client = "pan" THEN req.type = "keygen" ELSE req.xml.op = "Login"
VerbCall(call) == call.verb \notin {"none", "__init__"}

C9_State ==
    /\ auth \in {"Unauthenticated", "Authenticating", "Ready"}
    /\ auth = "Unauthenticated" => logins = 0 /\ prompts = 0
    /\ (auth = "Ready" /\ client = "pan") =>
          /\ logins = Len(URLS)
          /\ Len(firewalls) = Len(URLS)
          /\ \A i \in 1..Len(URLS) : firewalls[i].url = URLS[i]
    /\ (auth = "Ready" /\ client = "sophos") => logins = 1
    /\ VerbCall(last) =>
          /\ auth = "Ready"
          /\ \A i \in 1..Len(last.reqs) : ~IsLogin(last.reqs[i])

C9_Step ==
    /\ auth' # auth => <<auth, auth'>> \in {<<"Unauthenticated", "Authenticating">>,
                                           <<"Authenticating", "Ready">>}
    /\ auth = "Ready" =>
          UNCHANGED <<auth, logins, prompts, keyring, login_xml, firewalls>>

\* C9: both adapters go Unauthenticated -> Authenticating -> Ready once, during
\* construction: no verb is served before Ready, Ready is never left, and from
\* Ready on no login call is made (Firewall-A made exactly one keygen login per
\* configured endpoint, Firewall-B exactly one login check), no credential is
\* prompted for or stored, and the session token / login fragment is unchanged.
C9_AuthenticatedOnce == []C9_State /\ [][C9_Step]_vars

C9_Witness ==
    /\ client = "pan" /\ auth = "Ready" /\ Len(URLS) = 2
    /\ prompts = 4 /\ logins = 2
    /\ last.verb = "block_host" /\ Len(last.reqs) = 2

C10_State ==
    client = "sophos" =>
    /\ (last.verb = "__init__" /\ last.status \in LoginStatuses
        /\ last.status # "Authentication Successful") =>
          ~alive /\ auth # "Ready" /\ last.outcome = "exit"
    /\ (last.verb \in HostVerbs /\ last.env.getOk /\ Len(last.pre) = 0) =>
          /\ ~alive /\ last.outcome = "exit"
          /\ ~HasSet(last) /\ Len(last.reqs) = 1
          /\ iphosts = last.pre
    /\ (last.verb \in HostVerbs /\ last.env.getOk /\ Len(last.pre) > 1) =>
          /\ alive /\ last.outcome # "exit"
          /\ last.pre[1] # <<>> => Entries(last.pre[1]) = last.fetched

\* C10: on Firewall-B a login check whose status is not exactly
\* "Authentication Successful", and a list fetch that finds no resource of the
\* configured name, end the process: nothing is issued afterwards, in
\* particular no update; a fetch that finds several uses the first and goes on.
C10_FatalIsTerminal == []C10_State /\ [][~alive => UNCHANGED vars]_vars

C10_Witness ==
    /\ client = "sophos" /\ ~alive
    /\ last.verb = "block_host" /\ last.outcome = "exit" /\ Len(last.pre) = 0


====
